---- MODULE Spec2Model ----
(***************************************************************************)
(* DatabaseService (src/app/services/database_service.py): the data-access *)
(* layer that maps OnePagerRecord objects to rows of the table             *)
(* one_pager_reports through the store client.                             *)
(*                                                                         *)
(* A row is a function from column names to values, so that the set of     *)
(* columns a write carries is part of the state.  A structured (JSON)      *)
(* value is a record tagged by t; Python's None is NULL.                   *)
(***************************************************************************)
EXTENDS Integers, Sequences, FiniteSets, TLC

VARIABLES
    table,      \* one_pager_reports: id -> row, DOMAIN table = the stored ids
    nextId,     \* the store's auto-increment primary key
    clock,      \* datetime.utcnow(), as a counter
    last,       \* the sequential caller: the call that has just returned, or Idle
    inflight    \* per concurrent caller: the update_atomic call it has under way

vars == <<table, nextId, clock, last, inflight>>

-----------------------------------------------------------------------------
(* Bounds *)

MaxId == 2          \* ids the store hands out: 1..MaxId
MaxClock == 1       \* utcnow() ranges over 0..MaxClock
NumCallers == 2     \* concurrent callers of update_atomic

-----------------------------------------------------------------------------
(* Values *)

NULL == "NULL"                                  \* None
JNull == [t |-> "null"]                         \* a JSON column holding null
JObj(url, path) == [t |-> "object", excel_blob_url |-> url, excel_blob_path |-> path]
JOther == [t |-> "object", note |-> "x"]        \* a dict without the two excel keys

Statuses == {"in-progress", "success", "partial-success", "error"}
Terminal == {"success", "partial-success", "error"}
Urls == {NULL, "", "u"}
Paths == {NULL, "", "p"}
Subjects == {[request_id |-> "r1", company_name |-> "Acme"],
             [request_id |-> "r2", company_name |-> "Beta"]}
Companies == {s.company_name : s \in Subjects}
RequestIds == {s.request_id : s \in Subjects}
Ids == 1..MaxId
NoGuard == "NO_GUARD"                           \* expected_status = None

\* Python truthiness of an Optional[str]: None and "" are falsy.
Truthy(v) == v # NULL /\ v # ""

\* dict.get(k) / dict.pop(k, None): the value, or None when the key is absent.
DictGet(d, k) == IF k \in DOMAIN d THEN d[k] ELSE NULL
\* the dict without key k (dict.pop)
DictPop(d, k) == [c \in DOMAIN d \ {k} |-> d[c]]
\* d[k] = v
DictSet(d, k, v) == [c \in DOMAIN d \cup {k} |-> IF c = k THEN v ELSE d[c]]

-----------------------------------------------------------------------------
(* OnePagerRecord *)

\* The fields of the pydantic model that the model keeps.
RecordFields == {"id", "request_id", "company_name", "status",
                 "excel_blob_url", "excel_blob_path", "excel_blob_info",
                 "created_at", "updated_at"}

\* OnePagerRecord(**d): extra keys are ignored, absent optional fields default
\* to None, and a required field that is absent or None fails validation.
Validates(d) ==
    /\ {"request_id", "company_name", "status"} \subseteq DOMAIN d
    /\ d["request_id"] # NULL
    /\ d["company_name"] # NULL
    /\ d["status"] # NULL

OnePagerRecord(d) ==
    [f \in RecordFields |->
        IF f \in DOMAIN d THEN d[f]
        ELSE IF f = "excel_blob_info" THEN JNull ELSE NULL]

-----------------------------------------------------------------------------
(* What a call hands back, and what the store client hands back *)

Rec(r) == [kind |-> "record", rec |-> r]        \* an OnePagerRecord
None == [kind |-> "none"]                       \* return None
List(s) == [kind |-> "list", recs |-> s]        \* return [...]
Bool(b) == [kind |-> "bool", val |-> b]         \* return True / False
Raised == [kind |-> "raised"]                   \* an exception leaves the frame

\* The reply of query.execute(): the table afterwards and result.data.
Reply(tbl, rows) == [table |-> tbl, data |-> rows]
\* The outcome of a handler: the table afterwards and what the caller gets.
Outcome(tbl, res) == [table |-> tbl, result |-> res]

-----------------------------------------------------------------------------
(* Row translation *)

\* The pair packed without excel_blob_path.
_prepare_record_for_db_drops_path(record_data) ==
    LET dump == [f \in RecordFields \ {"id", "created_at", "updated_at"} |-> record_data[f]]
        excel_blob_url == DictGet(dump, "excel_blob_url")
        data == DictPop(DictPop(dump, "excel_blob_url"), "excel_blob_path")
    IN  IF Truthy(excel_blob_url)
        THEN DictSet(data, "excel_blob_info", JObj(excel_blob_url, NULL))
        ELSE DictSet(data, "excel_blob_info", JNull)

\* model_dump(exclude={'id', 'created_at', 'updated_at'}), then the two excel
\* fields are popped and packed into excel_blob_info, which is always written.
_prepare_record_for_db(record_data) ==
    LET dump == [f \in RecordFields \ {"id", "created_at", "updated_at"} |-> record_data[f]]
        excel_blob_url == DictGet(dump, "excel_blob_url")
        excel_blob_path == DictGet(dump, "excel_blob_path")
        data == DictPop(DictPop(dump, "excel_blob_url"), "excel_blob_path")
    IN  IF Truthy(excel_blob_url) \/ Truthy(excel_blob_path)
        THEN DictSet(data, "excel_blob_info", JObj(excel_blob_url, excel_blob_path))
        ELSE DictSet(data, "excel_blob_info", JNull)

\* db_record.get('excel_blob_info') and isinstance(..., dict)
HasExcelInfo(db_record) ==
    /\ "excel_blob_info" \in DOMAIN db_record
    /\ db_record["excel_blob_info"].t = "object"

\* Unpacking only when both sub-fields are non-empty.
_extract_record_from_db_needs_both(db_record) ==
    LET info == db_record["excel_blob_info"]
        unpacked ==
            IF /\ HasExcelInfo(db_record)
               /\ Truthy(DictGet(info, "excel_blob_url"))
               /\ Truthy(DictGet(info, "excel_blob_path"))
            THEN DictSet(DictSet(db_record, "excel_blob_url", DictGet(info, "excel_blob_url")),
                         "excel_blob_path", DictGet(info, "excel_blob_path"))
            ELSE DictSet(DictSet(db_record, "excel_blob_url", NULL), "excel_blob_path", NULL)
    IN  IF Validates(unpacked) THEN Rec(OnePagerRecord(unpacked)) ELSE Raised

\* The row with the two excel fields unpacked (or None), as an OnePagerRecord;
\* the constructor raises when the row does not validate.
_extract_record_from_db(db_record) ==
    LET info == db_record["excel_blob_info"]
        unpacked ==
            IF HasExcelInfo(db_record)
            THEN DictSet(DictSet(db_record, "excel_blob_url", DictGet(info, "excel_blob_url")),
                         "excel_blob_path", DictGet(info, "excel_blob_path"))
            ELSE DictSet(DictSet(db_record, "excel_blob_url", NULL), "excel_blob_path", NULL)
    IN  IF Validates(unpacked) THEN Rec(OnePagerRecord(unpacked)) ELSE Raised

\* [self._extract_record_from_db(record) for record in result.data]:
\* one row that does not validate raises out of the comprehension.
ExtractAll(rows) ==
    IF \E i \in 1..Len(rows) : _extract_record_from_db(rows[i]).kind = "raised"
    THEN Raised
    ELSE List([i \in 1..Len(rows) |-> _extract_record_from_db(rows[i]).rec])

-----------------------------------------------------------------------------
(* The store client: table('one_pager_reports')...execute() *)

\* insert(data): the store assigns the id and hands the new row back.
StoreInsert(tbl, id, data) ==
    LET row == DictSet(data, "id", id)
    IN  Reply([i \in DOMAIN tbl \cup {id} |-> IF i = id THEN row ELSE tbl[i]], <<row>>)

\* The filter with eq('id', ...) alone: the status of the stored row is not read.
Matches_id_only(tbl, id, guard) ==
    id \in DOMAIN tbl

\* The rows an update filtered by eq('id', ...) and, with a guard, by
\* eq('status', ...) applies to.
Matches(tbl, id, guard) ==
    /\ id \in DOMAIN tbl
    /\ guard = NoGuard \/ tbl[id]["status"] = guard

\* update(update_data).eq(...): one statement; the filter is evaluated and the
\* columns of update_data are overwritten in the same step, the others kept.
StoreUpdate(tbl, id, update_data, guard) ==
    IF Matches(tbl, id, guard)
    THEN LET row == [c \in DOMAIN tbl[id] \cup DOMAIN update_data |->
                        IF c \in DOMAIN update_data THEN update_data[c] ELSE tbl[id][c]]
         IN  Reply([tbl EXCEPT ![id] = row], <<row>>)
    ELSE Reply(tbl, << >>)

\* delete().eq('id', ...): the removed rows are handed back.
StoreDelete(tbl, id) ==
    IF id \in DOMAIN tbl
    THEN Reply([i \in DOMAIN tbl \ {id} |-> tbl[i]], <<tbl[id]>>)
    ELSE Reply(tbl, << >>)

\* The ways the n ids of a set can be listed.
Arrangements(ids) ==
    {s \in [1..Cardinality(ids) -> ids] : \A i, j \in DOMAIN s : i # j => s[i] # s[j]}

Min(a, b) == IF a < b THEN a ELSE b

\* select('*') over the rows with the ids `ids`: every reply the store may give.
\* With order('created_at', desc=True) the rows come newest first and rows of
\* equal created_at in either order; without it in any order; limit(n) cuts.
StoreSelect(tbl, ids, ordered, limit) ==
    {[i \in 1..Min(limit, Cardinality(ids)) |-> tbl[s[i]]] :
        s \in {a \in Arrangements(ids) :
                ordered => \A i, j \in DOMAIN a :
                    i < j => tbl[a[i]]["created_at"] >= tbl[a[j]]["created_at"]}}

NoLimit == MaxId + 1                            \* a query without limit()

-----------------------------------------------------------------------------
(* DatabaseService *)

\* try: ... except Exception: log, return `default`.  What the body wrote to
\* the store before it raised stays written.
Try(outcomes, default) ==
    {Outcome(o.table, IF o.result.kind = "raised" THEN default ELSE o.result) : o \in outcomes}

\* if result.data and len(result.data) > 0: return extract(result.data[0])
\* else: return None
FirstOrNone(reply) ==
    Outcome(reply.table,
            IF Len(reply.data) > 0 THEN _extract_record_from_db(reply.data[1]) ELSE None)

\* create that lets the caller's own excel_blob_info through when no excel
\* field is given.
create_one_pager_record_keeps_info(tbl, id, now, record_data, fault) ==
    Try(LET prepared == _prepare_record_for_db(record_data)
            kept == IF prepared["excel_blob_info"] = JNull
                    THEN DictSet(prepared, "excel_blob_info", record_data["excel_blob_info"])
                    ELSE prepared
            data == DictSet(DictSet(kept, "created_at", now), "updated_at", now)
        IN  IF fault THEN {Outcome(tbl, Raised)}
            ELSE {FirstOrNone(StoreInsert(tbl, id, data))},
        None)

\* fault: the client's execute() raises (network, store-side rejection) and
\* nothing is applied.
create_one_pager_record(tbl, id, now, record_data, fault) ==
    Try(LET data == DictSet(DictSet(_prepare_record_for_db(record_data),
                                    "created_at", now), "updated_at", now)
        IN  IF fault THEN {Outcome(tbl, Raised)}
            ELSE {FirstOrNone(StoreInsert(tbl, id, data))},
        None)

\* excel_blob_info left as the caller gave it when no excel field is given.
update_payload_keeps_own_info(update_data, now) ==
    LET excel_blob_url == DictGet(update_data, "excel_blob_url")
        excel_blob_path == DictGet(update_data, "excel_blob_path")
        data == DictPop(DictPop(update_data, "excel_blob_url"), "excel_blob_path")
    IN  DictSet(IF Truthy(excel_blob_url) \/ Truthy(excel_blob_path)
                THEN DictSet(data, "excel_blob_info", JObj(excel_blob_url, excel_blob_path))
                ELSE IF "excel_blob_info" \in DOMAIN data THEN data
                ELSE DictSet(data, "excel_blob_info", JNull),
                "updated_at", now)

\* The pair packed from excel_blob_url alone.
update_payload_url_only(update_data, now) ==
    LET excel_blob_url == DictGet(update_data, "excel_blob_url")
        data == DictPop(DictPop(update_data, "excel_blob_url"), "excel_blob_path")
    IN  DictSet(IF Truthy(excel_blob_url)
                THEN DictSet(data, "excel_blob_info", JObj(excel_blob_url, NULL))
                ELSE DictSet(data, "excel_blob_info", JNull),
                "updated_at", now)

\* Lines 125-137: the excel fields are popped and packed (excel_blob_info is
\* always set), then updated_at is stamped.
update_payload(update_data, now) ==
    LET excel_blob_url == DictGet(update_data, "excel_blob_url")
        excel_blob_path == DictGet(update_data, "excel_blob_path")
        data == DictPop(DictPop(update_data, "excel_blob_url"), "excel_blob_path")
    IN  DictSet(IF Truthy(excel_blob_url) \/ Truthy(excel_blob_path)
                THEN DictSet(data, "excel_blob_info", JObj(excel_blob_url, excel_blob_path))
                ELSE DictSet(data, "excel_blob_info", JNull),
                "updated_at", now)

update_one_pager_record(tbl, now, record_id, update_data, fault) ==
    Try(LET data == update_payload(update_data, now)
        IN  IF fault THEN {Outcome(tbl, Raised)}
            ELSE {FirstOrNone(StoreUpdate(tbl, record_id, data, NoGuard))},
        None)

\* Lines 243-255, the same steps in update_one_pager_record_atomic.
atomic_payload(update_data, now) ==
    LET excel_blob_url == DictGet(update_data, "excel_blob_url")
        excel_blob_path == DictGet(update_data, "excel_blob_path")
        data == DictPop(DictPop(update_data, "excel_blob_url"), "excel_blob_path")
    IN  DictSet(IF Truthy(excel_blob_url) \/ Truthy(excel_blob_path)
                THEN DictSet(data, "excel_blob_info", JObj(excel_blob_url, excel_blob_path))
                ELSE DictSet(data, "excel_blob_info", JNull),
                "updated_at", now)

\* The query built without the eq('status', ...) filter.
atomic_execute_unguarded(tbl, record_id, data, expected_status) ==
    StoreUpdate(tbl, record_id, data, NoGuard)

\* Lines 257-264: the query, with eq('status', expected_status) when a guard is given.
atomic_execute(tbl, record_id, data, expected_status) ==
    StoreUpdate(tbl, record_id, data, expected_status)

update_one_pager_record_atomic(tbl, now, record_id, update_data, expected_status, fault) ==
    Try(LET data == atomic_payload(update_data, now)
        IN  IF fault THEN {Outcome(tbl, Raised)}
            ELSE {FirstOrNone(atomic_execute(tbl, record_id, data, expected_status))},
        None)

get_one_pager_record(tbl, record_id, fault) ==
    Try(IF fault THEN {Outcome(tbl, Raised)}
        ELSE {FirstOrNone(Reply(tbl, rows)) :
                rows \in StoreSelect(tbl, {i \in DOMAIN tbl : i = record_id}, FALSE, NoLimit)},
        None)

\* The listing without its try/except.
get_one_pager_records_by_company_uncaught(tbl, company_name, fault) ==
    IF fault THEN {Outcome(tbl, Raised)}
    ELSE {Outcome(tbl, ExtractAll(rows)) :
            rows \in StoreSelect(tbl,
                        {i \in DOMAIN tbl : tbl[i]["company_name"] = company_name},
                        TRUE, NoLimit)}

get_one_pager_records_by_company(tbl, company_name, fault) ==
    Try(IF fault THEN {Outcome(tbl, Raised)}
        ELSE {Outcome(tbl, ExtractAll(rows)) :
                rows \in StoreSelect(tbl,
                            {i \in DOMAIN tbl : tbl[i]["company_name"] = company_name},
                            TRUE, NoLimit)},
        List(<< >>))

get_recent_one_pager_records(tbl, limit, fault) ==
    Try(IF fault THEN {Outcome(tbl, Raised)}
        ELSE {Outcome(tbl, ExtractAll(rows)) :
                rows \in StoreSelect(tbl, DOMAIN tbl, TRUE, limit)},
        List(<< >>))

get_one_pager_record_by_request_id(tbl, request_id, fault) ==
    Try(IF fault THEN {Outcome(tbl, Raised)}
        ELSE {FirstOrNone(Reply(tbl, rows)) :
                rows \in StoreSelect(tbl,
                            {i \in DOMAIN tbl : tbl[i]["request_id"] = request_id},
                            FALSE, NoLimit)},
        None)

get_in_progress_records_by_company(tbl, company_name, fault) ==
    Try(IF fault THEN {Outcome(tbl, Raised)}
        ELSE {Outcome(tbl, ExtractAll(rows)) :
                rows \in StoreSelect(tbl,
                            {i \in DOMAIN tbl : /\ tbl[i]["company_name"] = company_name
                                                /\ tbl[i]["status"] = "in-progress"},
                            TRUE, NoLimit)},
        List(<< >>))

get_recent_request_by_company(tbl, company_name, fault) ==
    Try(IF fault THEN {Outcome(tbl, Raised)}
        ELSE {FirstOrNone(Reply(tbl, rows)) :
                rows \in StoreSelect(tbl,
                            {i \in DOMAIN tbl : tbl[i]["company_name"] = company_name},
                            TRUE, 1)},
        None)

\* delete that reports success whatever the store removed.
delete_one_pager_record_always_true(tbl, record_id, fault) ==
    Try(IF fault THEN {Outcome(tbl, Raised)}
        ELSE {Outcome(StoreDelete(tbl, record_id).table, Bool(TRUE))},
        Bool(FALSE))

\* if result.data: return True else: return False
delete_one_pager_record(tbl, record_id, fault) ==
    Try(IF fault THEN {Outcome(tbl, Raised)}
        ELSE LET reply == StoreDelete(tbl, record_id)
             IN  {Outcome(reply.table, Bool(Len(reply.data) > 0))},
        Bool(FALSE))

-----------------------------------------------------------------------------
(* Inputs *)

DefaultLimit == 100                             \* limit: int = 100

\* The records a caller hands to create: every required field set, the two
\* excel fields free, excel_blob_info None or a dict of the caller's own.
NewRecord(s, st, u, p, inf) ==
    [id |-> NULL, request_id |-> s.request_id, company_name |-> s.company_name,
     status |-> st, excel_blob_url |-> u, excel_blob_path |-> p,
     excel_blob_info |-> inf, created_at |-> NULL, updated_at |-> NULL]
CreateInputs ==
    {NewRecord(s, st, u, p, JNull) : s \in Subjects, st \in Statuses, u \in Urls, p \in Paths}
    \cup {NewRecord(s, "in-progress", u, p, JOther) : s \in Subjects, u \in Urls, p \in Paths}

\* The partial field sets a caller hands to update and update_atomic: any
\* subset of the keys, a key's value drawn from its values.
Absent == "ABSENT"                              \* the key is not in the dict
Partial(st, u, p, own) ==
    [k \in {c \in {"status"} : st # Absent} \cup {c \in {"excel_blob_url"} : u # Absent}
            \cup {c \in {"excel_blob_path"} : p # Absent}
            \cup {c \in {"excel_blob_info"} : own} |->
        CASE k = "status" -> st
          [] k = "excel_blob_url" -> u
          [] k = "excel_blob_path" -> p
          [] k = "excel_blob_info" -> JOther]
UpdateInputs ==
    {Partial(st, u, p, FALSE) :
        st \in {Absent, "in-progress", "success", NULL},
        u \in {Absent, "", "u"}, p \in {Absent, "", "p"}}
    \cup {Partial(Absent, u, p, TRUE) : u \in {Absent, "", "u"}, p \in {Absent, "", "p"}}

Guards == {NoGuard, "in-progress", "success"}
Limits == {1, DefaultLimit}

\* A call whose execute() fails sends nothing: the steps draw one input for it,
\* the formulas below range over all of them.
FailedCreateInputs == {NewRecord(s, "in-progress", NULL, NULL, JNull) : s \in Subjects}
FailedUpdateInputs == {Partial("success", Absent, Absent, FALSE)}

-----------------------------------------------------------------------------
(* The sequential caller: one call at a time, each handler whole *)

\* A returned call: the operation, the id or key it was about, the guard, and
\* what it handed back.
Call(op, id, key, guard, res) ==
    [op |-> op, id |-> id, key |-> key, guard |-> guard, result |-> res]
Idle == Call("idle", 0, NULL, NoGuard, None)

Init ==
    /\ table = << >>
    /\ nextId = 1
    /\ clock = 0
    /\ last = Idle
    /\ inflight = [c \in 1..NumCallers |-> [stage |-> "idle"]]

\* utcnow() moves on.
Tick ==
    /\ last = Idle
    /\ clock < MaxClock
    /\ clock' = clock + 1
    /\ UNCHANGED <<table, nextId, last, inflight>>

Create ==
    /\ last = Idle
    /\ nextId <= MaxId
    /\ \E fault \in BOOLEAN :
       \E record_data \in IF fault THEN FailedCreateInputs ELSE CreateInputs :
         \E o \in create_one_pager_record(table, nextId, clock, record_data, fault) :
            /\ table' = o.table
            /\ nextId' = IF fault THEN nextId ELSE nextId + 1
            /\ last' = Call("create", nextId, NULL, NoGuard, o.result)
    /\ UNCHANGED <<clock, inflight>>

Update ==
    /\ last = Idle
    /\ \E record_id \in Ids, fault \in BOOLEAN :
       \E update_data \in IF fault THEN FailedUpdateInputs ELSE UpdateInputs :
         \E o \in update_one_pager_record(table, clock, record_id, update_data, fault) :
            /\ table' = o.table
            /\ last' = Call("update", record_id, NULL, NoGuard, o.result)
    /\ UNCHANGED <<nextId, clock, inflight>>

UpdateAtomic ==
    /\ last = Idle
    /\ \E record_id \in Ids, expected_status \in Guards, fault \in BOOLEAN :
       \E update_data \in IF fault THEN FailedUpdateInputs ELSE UpdateInputs :
         \E o \in update_one_pager_record_atomic(table, clock, record_id, update_data,
                                                 expected_status, fault) :
            /\ table' = o.table
            /\ last' = Call("update_atomic", record_id, NULL, expected_status, o.result)
    /\ UNCHANGED <<nextId, clock, inflight>>

Get ==
    /\ last = Idle
    /\ \E record_id \in Ids, fault \in BOOLEAN :
         \E o \in get_one_pager_record(table, record_id, fault) :
            /\ table' = o.table
            /\ last' = Call("get", record_id, NULL, NoGuard, o.result)
    /\ UNCHANGED <<nextId, clock, inflight>>

GetByRequestId ==
    /\ last = Idle
    /\ \E request_id \in RequestIds, fault \in BOOLEAN :
         \E o \in get_one_pager_record_by_request_id(table, request_id, fault) :
            /\ table' = o.table
            /\ last' = Call("get_by_request_id", 0, request_id, NoGuard, o.result)
    /\ UNCHANGED <<nextId, clock, inflight>>

ListByCompany ==
    /\ last = Idle
    /\ \E company_name \in Companies, fault \in BOOLEAN :
         \E o \in get_one_pager_records_by_company(table, company_name, fault) :
            /\ table' = o.table
            /\ last' = Call("list_by_company", 0, company_name, NoGuard, o.result)
    /\ UNCHANGED <<nextId, clock, inflight>>

ListInProgressByCompany ==
    /\ last = Idle
    /\ \E company_name \in Companies, fault \in BOOLEAN :
         \E o \in get_in_progress_records_by_company(table, company_name, fault) :
            /\ table' = o.table
            /\ last' = Call("list_in_progress_by_company", 0, company_name, NoGuard, o.result)
    /\ UNCHANGED <<nextId, clock, inflight>>

GetMostRecentByCompany ==
    /\ last = Idle
    /\ \E company_name \in Companies, fault \in BOOLEAN :
         \E o \in get_recent_request_by_company(table, company_name, fault) :
            /\ table' = o.table
            /\ last' = Call("get_most_recent_by_company", 0, company_name, NoGuard, o.result)
    /\ UNCHANGED <<nextId, clock, inflight>>

ListRecent ==
    /\ last = Idle
    /\ \E limit \in Limits, fault \in BOOLEAN :
         \E o \in get_recent_one_pager_records(table, limit, fault) :
            /\ table' = o.table
            /\ last' = Call("list_recent", limit, NULL, NoGuard, o.result)
    /\ UNCHANGED <<nextId, clock, inflight>>

Delete ==
    /\ last = Idle
    /\ \E record_id \in Ids, fault \in BOOLEAN :
         \E o \in delete_one_pager_record(table, record_id, fault) :
            /\ table' = o.table
            /\ last' = Call("delete", record_id, NULL, NoGuard, o.result)
    /\ UNCHANGED <<nextId, clock, inflight>>

\* The caller takes the result; the next call may start.
Return ==
    /\ last # Idle
    /\ last' = Idle
    /\ UNCHANGED <<table, nextId, clock, inflight>>

Next ==
    \/ Tick
    \/ Create
    \/ Update
    \/ UpdateAtomic
    \/ Get
    \/ GetByRequestId
    \/ ListByCompany
    \/ ListInProgressByCompany
    \/ GetMostRecentByCompany
    \/ ListRecent
    \/ Delete
    \/ Return

Spec == Init /\ [][Next]_vars

-----------------------------------------------------------------------------
(* Concurrent callers of update_atomic: the race out of in-progress *)

Callers == 1..NumCallers

\* The tables n creates leave behind, each record created in-progress.
RaceRecords ==
    {NewRecord(s, "in-progress", e[1], e[2], JNull) :
        s \in Subjects, e \in {<<NULL, NULL>>, <<"u", "p">>}}

RECURSIVE Created(_)
Created(n) ==
    IF n = 0 THEN {<< >>}
    ELSE UNION {{o.table : o \in create_one_pager_record(t, n, 0, r, FALSE)} :
                    t \in Created(n - 1), r \in RaceRecords}

InitRace ==
    /\ table \in UNION {Created(n) : n \in 1..MaxId}
    /\ nextId = Cardinality(DOMAIN table) + 1
    /\ clock = 0
    /\ last = Idle
    /\ inflight = [c \in Callers |-> [stage |-> "idle"]]

\* Lines 241-262: the caller builds the payload, stamps updated_at and builds
\* the guarded query; nothing has reached the store.
RaceIssue(c) ==
    /\ inflight[c].stage = "idle"
    /\ \E record_id \in Ids :
         inflight' = [inflight EXCEPT ![c] =
            [stage |-> "issued", id |-> record_id,
             data |-> atomic_payload(Partial("success", Absent, Absent, FALSE), clock),
             guard |-> "in-progress"]]
    /\ UNCHANGED <<table, nextId, clock, last>>

\* Line 264: the store applies the filtered update in one step.
RaceApply(c) ==
    /\ inflight[c].stage = "issued"
    /\ LET reply == atomic_execute(table, inflight[c].id, inflight[c].data, inflight[c].guard)
       IN  /\ table' = reply.table
           /\ inflight' = [inflight EXCEPT ![c] =
                [stage |-> "applied", id |-> inflight[c].id, data |-> reply.data]]
    /\ UNCHANGED <<nextId, clock, last>>

\* Lines 266-279: the reply is translated and handed to the caller.
RaceReturn(c) ==
    /\ inflight[c].stage = "applied"
    /\ \E o \in Try({FirstOrNone(Reply(table, inflight[c].data))}, None) :
         inflight' = [inflight EXCEPT ![c] =
            [stage |-> "returned", id |-> inflight[c].id, result |-> o.result]]
    /\ UNCHANGED <<table, nextId, clock, last>>

NextRace ==
    \/ Tick
    \/ \E c \in Callers : RaceIssue(c)
    \/ \E c \in Callers : RaceApply(c)
    \/ \E c \in Callers : RaceReturn(c)

SpecRace == InitRace /\ [][NextRace]_vars

-----------------------------------------------------------------------------
(* C1 *)

AllReturned == \A c \in Callers : inflight[c].stage = "returned"
Targeting(id) == {c \in Callers : inflight[c].stage # "idle" /\ inflight[c].id = id}
Winners(id) == {c \in Targeting(id) : inflight[c].result.kind = "record"}

\* C1: a stored record is in-progress and the callers race
\* update_atomic(id, {status: success}, expected_status = in-progress) on it.
\* Once all calls have returned, of the calls on one record (two or more)
\* exactly one has returned the updated record, with status success, every
\* other has returned no result, and the stored status is success.
C1_ExactlyOneWinner ==
    AllReturned =>
        \A id \in DOMAIN table :
            Cardinality(Targeting(id)) >= 2 =>
                /\ Cardinality(Winners(id)) = 1
                /\ \A c \in Winners(id) : inflight[c].result.rec["status"] = "success"
                /\ \A c \in Targeting(id) \ Winners(id) : inflight[c].result = None
                /\ table[id]["status"] = "success"

\* Both callers raced on the same stored record and the second caller won.
C1_Witness ==
    /\ AllReturned
    /\ \E id \in DOMAIN table :
        /\ Targeting(id) = Callers
        /\ Winners(id) = {2}
        /\ inflight[1].result = None

-----------------------------------------------------------------------------
(* C2, C6, C7: create, then get on the returned id *)

\* The sequential caller is between calls and the store has an id to give.
CanCreate == last = Idle /\ nextId <= MaxId

\* create(r) hands back a record and get on its id hands back a record, both
\* with excel_blob_url = url and excel_blob_path = path, and the stored
\* excel_blob_info is info.
CreateThenGet(r, url, path, info) ==
    \A o \in create_one_pager_record(table, nextId, clock, r, FALSE) :
        /\ o.result.kind = "record"
        /\ o.result.rec["excel_blob_url"] = url
        /\ o.result.rec["excel_blob_path"] = path
        /\ o.table[o.result.rec["id"]]["excel_blob_info"] = info
        /\ \A g \in get_one_pager_record(o.table, o.result.rec["id"], FALSE) :
            /\ g.result.kind = "record"
            /\ g.result.rec["excel_blob_url"] = url
            /\ g.result.rec["excel_blob_path"] = path

\* The record the last call returned is the one get now returns for its id.
LastIsStored ==
    /\ last.result.kind = "record"
    /\ \A g \in get_one_pager_record(table, last.id, FALSE) : g.result = last.result

\* C2: for every record with both excel_blob_url and excel_blob_path set (to a
\* non-empty string, which is what the packing rule takes for set), create
\* returns a record with both fields equal to the originals, and get on the
\* returned id returns a record with both fields equal to the originals.
C2_RoundTrip ==
    CanCreate =>
        \A r \in CreateInputs :
            Truthy(r.excel_blob_url) /\ Truthy(r.excel_blob_path) =>
                CreateThenGet(r, r.excel_blob_url, r.excel_blob_path,
                              JObj(r.excel_blob_url, r.excel_blob_path))

\* create has just returned a record carrying both excel fields, and get
\* returns that same record.
C2_Witness ==
    /\ last.op = "create"
    /\ LastIsStored
    /\ last.result.rec["excel_blob_url"] = "u"
    /\ last.result.rec["excel_blob_path"] = "p"

\* C6: for every record with exactly one of the two excel fields supplied (a
\* non-empty string) and the other absent (None), create is not rejected, the
\* stored excel_blob_info is the non-null pair, and create and get return the
\* supplied field with its original value and the missing field as null.
C6_PartialPair ==
    CanCreate =>
        \A r \in CreateInputs :
            \/ Truthy(r.excel_blob_url) /\ r.excel_blob_path = NULL
            \/ r.excel_blob_url = NULL /\ Truthy(r.excel_blob_path)
            => CreateThenGet(r, r.excel_blob_url, r.excel_blob_path,
                             JObj(r.excel_blob_url, r.excel_blob_path))

\* create has just returned a record with the url and without the path; the
\* stored column is the pair with a null path.
C6_Witness ==
    /\ last.op = "create"
    /\ LastIsStored
    /\ last.result.rec["excel_blob_url"] = "u"
    /\ last.result.rec["excel_blob_path"] = NULL
    /\ table[last.id]["excel_blob_info"] = JObj("u", NULL)

\* C7: for every record with both excel fields absent (None), whatever
\* excel_blob_info it carries, create and get return both fields as null and
\* the stored excel_blob_info column is null.
C7_NullPair ==
    CanCreate =>
        \A r \in CreateInputs :
            r.excel_blob_url = NULL /\ r.excel_blob_path = NULL =>
                CreateThenGet(r, NULL, NULL, JNull)

\* create has just returned a record without excel fields; its column is null.
C7_Witness ==
    /\ last.op = "create"
    /\ LastIsStored
    /\ last.result.rec["excel_blob_url"] = NULL
    /\ last.result.rec["excel_blob_path"] = NULL
    /\ table[last.id]["excel_blob_info"] = JNull

-----------------------------------------------------------------------------
(* C3 *)

\* The call succeeded on row id and the returned record shows the status and
\* the two excel fields of the field set d.
Shows(o, id, d) ==
    /\ o.result.kind = "record"
    /\ o.result.rec["id"] = id
    /\ o.result.rec["status"] = d["status"]
    /\ o.result.rec["excel_blob_url"] = d["excel_blob_url"]
    /\ o.result.rec["excel_blob_path"] = d["excel_blob_path"]

\* A field set with a status and both excel fields (non-empty).
FullFieldSet(d) ==
    /\ {"status", "excel_blob_url", "excel_blob_path"} \subseteq DOMAIN d
    /\ d["status"] \in Statuses
    /\ Truthy(d["excel_blob_url"])
    /\ Truthy(d["excel_blob_path"])

\* C3: update, and update_atomic with no guard or with a guard the row's
\* status matches, called on an existing row with a field set that holds a
\* status and both excel fields, succeeds, and the returned record shows the
\* supplied status, excel_blob_url and excel_blob_path.
C3_UpdateShowsSupplied ==
    last = Idle =>
        \A id \in DOMAIN table, d \in UpdateInputs :
            FullFieldSet(d) =>
                /\ \A o \in update_one_pager_record(table, clock, id, d, FALSE) :
                        Shows(o, id, d)
                /\ \A g \in Guards :
                        Matches(table, id, g) =>
                            \A o \in update_one_pager_record_atomic(table, clock, id, d, g, FALSE) :
                                Shows(o, id, d)

\* update_atomic guarded by in-progress has just returned the record with
\* status success and the excel pair (u, p), and that is what is stored.
C3_Witness ==
    /\ last.op = "update_atomic"
    /\ last.guard = "in-progress"
    /\ LastIsStored
    /\ last.result.rec["status"] = "success"
    /\ last.result.rec["excel_blob_url"] = "u"
    /\ last.result.rec["excel_blob_path"] = "p"

-----------------------------------------------------------------------------
(* C4 *)

SingleOps == {"create", "update", "update_atomic", "get", "get_by_request_id",
              "get_most_recent_by_company"}
ListOps == {"list_by_company", "list_in_progress_by_company", "list_recent"}

\* What op may hand back; never an exception.
Fits(op, res) ==
    /\ op \in SingleOps => res.kind \in {"record", "none"}
    /\ op \in ListOps => res.kind = "list"
    /\ op = "delete" => res.kind = "bool"

\* What op hands back when it could not complete.
Failure(op) ==
    IF op \in ListOps THEN List(<< >>) ELSE IF op = "delete" THEN Bool(FALSE) ELSE None

\* Every outcome of the set is the failure value of op.
Swallowed(op, outcomes) ==
    \A o \in outcomes : o.result = Failure(op)

Untranslatable(row) == _extract_record_from_db(row).kind = "raised"

\* C4: every call that has returned has returned a value (a record or null, a
\* list, a boolean), not an exception; from every state, each of the ten
\* operations on each input returns the failure value (null, the empty list,
\* false) when the client fails; and a read whose reply holds a row that
\* cannot be translated returns the failure value.
C4_NothingRaises ==
    /\ Fits(last.op, last.result)
    /\ last = Idle =>
        /\ \A r \in CreateInputs :
            Swallowed("create", create_one_pager_record(table, nextId, clock, r, TRUE))
        /\ \A id \in Ids :
            /\ \A d \in UpdateInputs :
                /\ Swallowed("update", update_one_pager_record(table, clock, id, d, TRUE))
                /\ \A g \in Guards :
                    Swallowed("update_atomic",
                              update_one_pager_record_atomic(table, clock, id, d, g, TRUE))
            /\ Swallowed("get", get_one_pager_record(table, id, TRUE))
            /\ Swallowed("delete", delete_one_pager_record(table, id, TRUE))
        /\ \A q \in RequestIds :
            Swallowed("get_by_request_id", get_one_pager_record_by_request_id(table, q, TRUE))
        /\ \A co \in Companies :
            /\ Swallowed("list_by_company", get_one_pager_records_by_company(table, co, TRUE))
            /\ Swallowed("list_in_progress_by_company",
                         get_in_progress_records_by_company(table, co, TRUE))
            /\ Swallowed("get_most_recent_by_company",
                         get_recent_request_by_company(table, co, TRUE))
        /\ \A n \in Limits :
            Swallowed("list_recent", get_recent_one_pager_records(table, n, TRUE))
    /\ last = Idle =>
        \A id \in DOMAIN table :
            Untranslatable(table[id]) =>
                /\ Swallowed("get", get_one_pager_record(table, id, FALSE))
                /\ Swallowed("list_by_company",
                             get_one_pager_records_by_company(table, table[id]["company_name"],
                                                              FALSE))
                /\ Swallowed("list_recent",
                             get_recent_one_pager_records(table, DefaultLimit, FALSE))

\* list_by_company has just returned the empty list although the company has
\* a stored row: the row cannot be translated.
C4_Witness ==
    /\ last.op = "list_by_company"
    /\ last.result = List(<< >>)
    /\ \E id \in DOMAIN table :
        /\ table[id]["company_name"] = last.key
        /\ Untranslatable(table[id])

-----------------------------------------------------------------------------
(* C5 *)

\* The rows whose status is terminal keep every stored field in this step.
TerminalRowsKept ==
    \A id \in DOMAIN table :
        table[id]["status"] \in Terminal => id \in DOMAIN table' /\ table'[id] = table[id]

\* C5 as claimed: no update or update_atomic call changes the stored fields of
\* a record whose status is terminal.
C5_Frozen ==
    [][last'.op \in {"update", "update_atomic"} => TerminalRowsKept]_vars

\* C5: no update_atomic call guarded by expected_status = in-progress changes
\* the stored fields of a record whose status is terminal.
C5_FrozenForGuardedUpdate ==
    [][last'.op = "update_atomic" /\ last'.guard = "in-progress" => TerminalRowsKept]_vars

\* update_atomic guarded by in-progress has just been called on a stored
\* record whose status is terminal, and has returned no result.
C5_Witness ==
    /\ last.op = "update_atomic"
    /\ last.guard = "in-progress"
    /\ last.id \in DOMAIN table
    /\ table[last.id]["status"] \in Terminal
    /\ last.result = None

-----------------------------------------------------------------------------
(* C8 *)

\* C8: delete on a stored id returns true and get on that id then returns no
\* result; delete on an id that is not stored returns false and leaves the
\* table as it was.
C8_Delete ==
    /\ last.op = "delete" /\ last.result = Bool(TRUE) =>
        \A g \in get_one_pager_record(table, last.id, FALSE) : g.result = None
    /\ last = Idle =>
        \A id \in Ids :
            \A o \in delete_one_pager_record(table, id, FALSE) :
                IF id \in DOMAIN table
                THEN /\ o.result = Bool(TRUE)
                     /\ \A g \in get_one_pager_record(o.table, id, FALSE) : g.result = None
                ELSE /\ o.result = Bool(FALSE)
                     /\ o.table = table

\* delete has just returned true for an id that is now gone, while another
\* row is still stored.
C8_Witness ==
    /\ last.op = "delete"
    /\ last.result = Bool(TRUE)
    /\ last.id \notin DOMAIN table
    /\ DOMAIN table # {}

-----------------------------------------------------------------------------
(* C9 *)

\* The columns a field set names: its keys, the two excel fields standing for
\* the column that stores them, and updated_at.
NamedColumns(d) ==
    (DOMAIN d \ {"excel_blob_url", "excel_blob_path"})
    \cup {c \in {"excel_blob_info"} : DOMAIN d \cap {"excel_blob_url", "excel_blob_path"} # {}}
    \cup {"updated_at"}

\* Row id of the outcome differs from the stored row in named columns only.
OnlyNamedChanged(o, id, d) ==
    \A c \in DOMAIN table[id] \ NamedColumns(d) : o.table[id][c] = table[id][c]

\* C9: update and update_atomic change only the columns the field set names,
\* and updated_at; a field set that names neither excel field leaves the
\* stored excel_blob_info as it was.
C9_OnlyNamedFieldsChange ==
    last = Idle =>
        \A id \in DOMAIN table, d \in UpdateInputs :
            /\ \A o \in update_one_pager_record(table, clock, id, d, FALSE) :
                    OnlyNamedChanged(o, id, d)
            /\ \A g \in Guards :
                    \A o \in update_one_pager_record_atomic(table, clock, id, d, g, FALSE) :
                        OnlyNamedChanged(o, id, d)

-----------------------------------------------------------------------------
(* C10 *)

\* C10: in every stored row the column excel_blob_info is null or an object
\* with both keys excel_blob_url and excel_blob_path, and neither of the two
\* is a column of the row.
C10_ExcelInfoShape ==
    \A id \in DOMAIN table :
        /\ "excel_blob_info" \in DOMAIN table[id]
        /\ \/ table[id]["excel_blob_info"] = JNull
           \/ /\ table[id]["excel_blob_info"].t = "object"
              /\ {"excel_blob_url", "excel_blob_path"} \subseteq DOMAIN table[id]["excel_blob_info"]
        /\ "excel_blob_url" \notin DOMAIN table[id]
        /\ "excel_blob_path" \notin DOMAIN table[id]

\* update has just written a row: one stored row holds the pair with a null
\* url, another holds null.
C10_Witness ==
    /\ last.op = "update"
    /\ last.result.kind = "record"
    /\ \E i, j \in DOMAIN table :
        /\ table[i]["excel_blob_info"] = JObj(NULL, "p")
        /\ table[j]["excel_blob_info"] = JNull

-----------------------------------------------------------------------------
(* C11 *)

\* On the table the update is applied to, the id of the update_atomic call
\* that returns in this step is stored and its status is the expected one.
GuardHeld ==
    /\ last'.id \in DOMAIN table
    /\ table[last'.id]["status"] = last'.guard

\* C11: an update_atomic call with an expected_status changes the table only
\* if the row of that id exists and its stored status equals expected_status
\* when the store applies the update; when the id is not stored or the stored
\* status differs, the call returns no result and every stored row, updated_at
\* included, is as it was.
C11_GuardedUpdate ==
    [][last'.op = "update_atomic" /\ last'.guard # NoGuard =>
          /\ table' # table => GuardHeld
          /\ ~GuardHeld => table' = table /\ last'.result = None]_vars

\* update_atomic with expected_status = success has just been called, at a
\* later time than the last write of the row, on a stored record whose status
\* is in-progress, and has returned no result.
C11_Witness ==
    /\ last.op = "update_atomic"
    /\ last.guard = "success"
    /\ last.result = None
    /\ last.id \in DOMAIN table
    /\ table[last.id]["status"] = "in-progress"
    /\ table[last.id]["updated_at"] < clock

====
